---- MODULE Spec2Model ----
(***************************************************************************)
(* tfdown: a Terraform downloader.                                         *)
(*   config.go      the persisted state file ~/.tfdown.conf                *)
(*   downloader.go  version resolution, archive download, Unzip            *)
(*   main.go        the orchestrator and installTerraform                  *)
(*                                                                         *)
(* Strings are sequences of one-character strings, so that TrimPrefix,     *)
(* TrimSpace, SplitN, HasPrefix and filepath.Clean are computed the way    *)
(* the Go library computes them.  A few multi-character atoms stand for    *)
(* fixed literals of the source: "version", "install", "install_path" (the *)
(* keys of the state file), "hdr" (the text of a comment line),            *)
(* "terraform", ".exe", "terraform_", ".zip" (file names), and the names   *)
(* of operating systems and architectures.                                 *)
(***************************************************************************)
EXTENDS Integers, Sequences, FiniteSets, TLC

VARIABLES
    \* ---- the run of main() ----
    pc,          \* position of main()
    cmd,         \* the parsed command line (flag values)
    cfgFile,     \* ~/.tfdown.conf: [exists, lines]
    cfgFile0,    \* content of the state file when the run started
    config,      \* the in-memory Config
    installFlag, \* *installFlag
    installPath, \* *installPath
    ver,         \* ver returned by downloader.GetVersion()
    requests,    \* network requests issued so far, in order
    zipFile,     \* name of the archive returned by Download, or <<>>
    cwdFiles,    \* archive files present in the working directory
    archive,     \* the zip content that was fetched
    pathExists,  \* whether the install path exists on disk
    installed,   \* binaries written into the install path
    tempDirs,    \* scratch directories created by MkdirTemp, still on disk
    everTemp,    \* scratch directories ever created
    exitErr,     \* phase whose fatal error ended the run, or "none"
    output,      \* what the run reported
    saveErr,     \* whether the last Save returned an error
    getStatus,   \* status of the answer to the archive GET, 0 when there is none
    \* ---- Unzip ----
    uzPc,        \* position of Unzip: idle, open, loop, ret
    uzDest,      \* destPath
    uzZip,       \* the archive: [ok, files]
    uzI,         \* index of the entry the loop is at
    uzErr,       \* the error Unzip returns
    uzPre,       \* paths on disk when the entry loop starts
    fsDirs,      \* directories created on disk
    fsFiles,     \* files created on disk
    \* ---- Config alone (Save / Load / Update) ----
    cPc,         \* position of the config scenario
    cSaved,      \* the Config that was saved
    cLoaded      \* the fresh Config after Load

vars == <<pc, cmd, cfgFile, cfgFile0, config, installFlag, installPath, ver,
          requests, zipFile, cwdFiles, archive, pathExists, installed,
          tempDirs, everTemp, exitErr, output, saveErr, getStatus,
          uzPc, uzDest, uzZip, uzI, uzErr, uzPre, fsDirs, fsFiles,
          cPc, cSaved, cLoaded>>

mainVars == <<pc, cmd, cfgFile, cfgFile0, config, installFlag, installPath, ver,
              requests, zipFile, cwdFiles, archive, pathExists, installed,
              tempDirs, everTemp, exitErr, output, saveErr, getStatus>>
uzVars == <<uzPc, uzDest, uzZip, uzI, uzErr, uzPre, fsDirs, fsFiles>>
cVars == <<cPc, cSaved, cLoaded>>

(***************************************************************************)
(* Bounds                                                                  *)
(***************************************************************************)
\* longest archive (number of entries) given to Unzip
MaxEntries == 2
\* longest version / install_path string of the Save-Load scenario
MaxStrLen == 2

(***************************************************************************)
(* strings                                                                 *)
(***************************************************************************)
Last(s) == s[Len(s)]
Front(s) == SubSeq(s, 1, Len(s) - 1)

\* strings.HasPrefix
HasPrefix(s, p) == Len(p) <= Len(s) /\ SubSeq(s, 1, Len(p)) = p

\* strings.TrimPrefix: removes ONE leading occurrence of p
TrimPrefix(s, p) == IF HasPrefix(s, p) THEN SubSeq(s, Len(p) + 1, Len(s)) ELSE s

IsSpace(c) == c \in {" ", "\t"}

RECURSIVE TrimLeft(_)
TrimLeft(s) == IF s # <<>> /\ IsSpace(Head(s)) THEN TrimLeft(Tail(s)) ELSE s

RECURSIVE TrimRight(_)
TrimRight(s) == IF s # <<>> /\ IsSpace(Last(s)) THEN TrimRight(Front(s)) ELSE s

\* strings.TrimSpace
TrimSpace(s) == TrimRight(TrimLeft(s))

\* index of the first c in s, 0 when there is none
RECURSIVE IndexFrom(_, _, _)
IndexFrom(s, c, i) ==
    IF i > Len(s) THEN 0
    ELSE IF s[i] = c THEN i
    ELSE IndexFrom(s, c, i + 1)

Index(s, c) == IndexFrom(s, c, 1)

\* strings.SplitN(s, sep, 2) for a one-character separator
SplitN2(s, sep) ==
    LET i == Index(s, sep) IN
    IF i = 0 THEN <<s>>
    ELSE <<SubSeq(s, 1, i - 1), SubSeq(s, i + 1, Len(s))>>

(***************************************************************************)
(* path/filepath (Unix: os.PathSeparator is "/")                           *)
(***************************************************************************)
Sep == "/"

\* the elements of a path between separators, empty ones included
RECURSIVE SplitPath(_, _, _)
SplitPath(s, i, cur) ==
    IF i > Len(s) THEN <<cur>>
    ELSE IF s[i] = Sep THEN <<cur>> \o SplitPath(s, i + 1, <<>>)
    ELSE SplitPath(s, i + 1, Append(cur, s[i]))

DotDot == <<".", ".">>
Dot == <<".">>

\* filepath.Clean's element rules: drop empty and ".", resolve ".." against
\* the element before it, drop ".." at the root, keep leading ".." otherwise
RECURSIVE CleanElems(_, _, _)
CleanElems(elems, out, rooted) ==
    IF elems = <<>> THEN out
    ELSE LET e == Head(elems) IN
         IF e = <<>> \/ e = Dot THEN CleanElems(Tail(elems), out, rooted)
         ELSE IF e = DotDot
              THEN IF out # <<>> /\ Last(out) # DotDot
                   THEN CleanElems(Tail(elems), Front(out), rooted)
                   ELSE IF rooted THEN CleanElems(Tail(elems), out, rooted)
                   ELSE CleanElems(Tail(elems), Append(out, e), rooted)
              ELSE CleanElems(Tail(elems), Append(out, e), rooted)

RECURSIVE JoinElems(_)
JoinElems(elems) ==
    IF elems = <<>> THEN <<>>
    ELSE IF Len(elems) = 1 THEN Head(elems)
    ELSE Head(elems) \o <<Sep>> \o JoinElems(Tail(elems))

IsRooted(p) == p # <<>> /\ p[1] = Sep

\* filepath.Clean
Clean(p) ==
    LET rooted == IsRooted(p)
        out == CleanElems(SplitPath(p, 1, <<>>), <<>>, rooted)
    IN IF rooted THEN <<Sep>> \o JoinElems(out)
       ELSE IF out = <<>> THEN Dot ELSE JoinElems(out)

\* filepath.Join(a, b): empty elements are ignored, the result is cleaned
Join(a, b) ==
    IF a = <<>> /\ b = <<>> THEN <<>>
    ELSE IF a = <<>> THEN Clean(b)
    ELSE IF b = <<>> THEN Clean(a)
    ELSE Clean(a \o <<Sep>> \o b)

\* filepath.Dir of a cleaned path
Dir(p) ==
    LET rooted == IsRooted(p)
        el == CleanElems(SplitPath(p, 1, <<>>), <<>>, rooted)
    IN IF el = <<>> THEN Clean(p)
       ELSE IF rooted THEN <<Sep>> \o JoinElems(Front(el))
       ELSE IF Len(el) = 1 THEN Dot ELSE JoinElems(Front(el))

\* the elements of the cleaned path
Elems(p) == CleanElems(SplitPath(p, 1, <<>>), <<>>, IsRooted(p))

\* directories that exist without having been created: the root, the
\* working directory and its ancestors
AlwaysDir(p) == p # <<>> /\ \A i \in 1..Len(Elems(p)) : Elems(p)[i] = DotDot

PathOf(el, rooted) ==
    IF rooted THEN <<Sep>> \o JoinElems(el)
    ELSE IF el = <<>> THEN Dot ELSE JoinElems(el)

\* the cleaned path and every ancestor of it
Prefixes(p) ==
    {PathOf(SubSeq(Elems(p), 1, k), IsRooted(p)) : k \in 0..Len(Elems(p))}

\* p is the directory d or lies below it (element by element, not by characters)
Inside(p, d) ==
    LET ep == Elems(p)
        ed == Elems(d)
    IN /\ IsRooted(p) = IsRooted(d)
       /\ Len(ep) >= Len(ed)
       /\ SubSeq(ep, 1, Len(ed)) = ed
       /\ \A i \in (Len(ed) + 1)..Len(ep) : ep[i] # DotDot

(***************************************************************************)
(* the file system Unzip writes to                                         *)
(***************************************************************************)
IsDirOnDisk(p, dirs) == p \in dirs \/ AlwaysDir(p)

\* os.MkdirAll: creates the directory and every missing parent; fails, creating
\* nothing, on the empty path and when an element of the path is a file
MkdirAll(p, dirs, files) ==
    IF p = <<>> \/ Prefixes(p) \cap files # {}
    THEN [ok |-> FALSE, dirs |-> dirs]
    ELSE [ok |-> TRUE,
          dirs |-> dirs \cup {a \in Prefixes(p) : ~AlwaysDir(a)}]

(***************************************************************************)
(* downloader.go: Unzip                                                    *)
(***************************************************************************)
\* the ZipSlip check of Unzip
IllegalPath(fpath, destPath) == ~HasPrefix(fpath, Clean(destPath) \o <<Sep>>)

\* zip.OpenReader and os.MkdirAll(destPath)
UnzipOpen ==
    /\ uzPc = "open"
    /\ IF ~uzZip.ok
       THEN /\ uzErr' = "open"
            /\ uzPc' = "ret"
            /\ UNCHANGED <<fsDirs, uzPre>>
       ELSE LET m == MkdirAll(uzDest, fsDirs, fsFiles) IN
            IF ~m.ok
            THEN /\ uzErr' = "mkdir"
                 /\ uzPc' = "ret"
                 /\ UNCHANGED <<fsDirs, uzPre>>
            ELSE /\ fsDirs' = m.dirs
                 /\ uzPre' = m.dirs \cup fsFiles
                 /\ uzPc' = "loop"
                 /\ UNCHANGED uzErr
    /\ UNCHANGED <<uzDest, uzZip, uzI, fsFiles>>

\* one iteration of the loop over r.File
UnzipEntry ==
    /\ uzPc = "loop"
    /\ uzI <= Len(uzZip.files)
    /\ LET f == uzZip.files[uzI]
           fpath == Join(uzDest, f.name)
       IN IF IllegalPath(fpath, uzDest)
          THEN /\ uzErr' = "illegal"
               /\ uzPc' = "ret"
               /\ UNCHANGED <<uzI, fsDirs, fsFiles>>
          ELSE IF f.isDir
          THEN \* the error of this MkdirAll is not looked at
               /\ fsDirs' = MkdirAll(fpath, fsDirs, fsFiles).dirs
               /\ uzI' = uzI + 1
               /\ UNCHANGED <<uzErr, uzPc, fsFiles>>
          ELSE LET m == MkdirAll(Dir(fpath), fsDirs, fsFiles) IN
               IF ~m.ok \/ IsDirOnDisk(fpath, m.dirs)
               THEN \* MkdirAll or OpenFile fails
                    /\ fsDirs' = m.dirs
                    /\ uzErr' = "io"
                    /\ uzPc' = "ret"
                    /\ UNCHANGED <<uzI, fsFiles>>
               ELSE /\ fsDirs' = m.dirs
                    /\ fsFiles' = fsFiles \cup {fpath}
                    /\ \E copied \in BOOLEAN :
                          \* f.Open or io.Copy may fail after the file was created
                          IF copied
                          THEN /\ uzI' = uzI + 1
                               /\ UNCHANGED <<uzErr, uzPc>>
                          ELSE /\ uzErr' = "io"
                               /\ uzPc' = "ret"
                               /\ UNCHANGED uzI
    /\ UNCHANGED <<uzDest, uzZip, uzPre>>

\* the loop is over: return nil
UnzipDone ==
    /\ uzPc = "loop"
    /\ uzI > Len(uzZip.files)
    /\ uzPc' = "ret"
    /\ UNCHANGED <<uzDest, uzZip, uzI, uzErr, uzPre, fsDirs, fsFiles>>

UnzipStep == UnzipOpen \/ UnzipEntry \/ UnzipDone

\* the names of archive entries and the destinations Unzip is called with
P_t == <<"/", "t">>
EntryNames ==
    { <<"a">>,
      <<"d", "/", "a">>,
      <<"d", "/">>,
      <<".", ".", "/", "e">>,
      <<".", ".", "/", "t", "t", "/", "e">>,
      <<".">> }

Dests == { P_t, <<"/", "t", "/">>, <<"t">>, <<".", ".">>, <<>> }

Entries ==
    {e \in [name : EntryNames, isDir : BOOLEAN] : Last(e.name) = Sep => e.isDir}

RECURSIVE SeqsUpTo(_, _)
SeqsUpTo(S, n) ==
    IF n = 0 THEN {<<>>}
    ELSE LET shorter == SeqsUpTo(S, n - 1) IN
         shorter \cup {Append(s, x) : s \in {t \in shorter : Len(t) = n - 1}, x \in S}

Archives == [ok : BOOLEAN, files : SeqsUpTo(Entries, MaxEntries)]

(***************************************************************************)
(* config.go                                                               *)
(***************************************************************************)
K_version == <<"version">>
K_install == <<"install">>
K_install_path == <<"install_path">>

\* NewConfig: the default values
NewConfig == [Version |-> <<>>, Install |-> FALSE, InstallPath |-> <<>>]

\* fmt's %t
FormatBool(b) == IF b THEN <<"t", "r", "u", "e">> ELSE <<"f", "a", "l", "s", "e">>

\* strconv.ParseBool with its error dropped: anything else is false
ParseBool(s) ==
    s \in { <<"1">>, <<"t">>, <<"T">>, <<"T", "R", "U", "E">>,
            <<"t", "r", "u", "e">>, <<"T", "r", "u", "e">> }

\* the state file: missing, or a sequence of lines
AbsentFile == [exists |-> FALSE, lines |-> <<>>]
FileOf(lines) == [exists |-> TRUE, lines |-> lines]

\* the lines Save writes: two comment lines, an empty line, three key=value lines
SaveContent(c) ==
    << <<"#", " ", "hdr">>,
       <<"#", " ", "hdr">>,
       <<>>,
       K_version \o <<"=">> \o c.Version,
       K_install \o <<"=">> \o FormatBool(c.Install),
       K_install_path \o <<"=">> \o c.InstallPath >>

\* the body of Load's scanner loop for one line
LoadLine(c, text) ==
    LET line == TrimSpace(text)
        parts == SplitN2(line, "=")
    IN IF line = <<>> \/ HasPrefix(line, <<"#">>) THEN c
       ELSE IF Len(parts) # 2 THEN c
       ELSE LET key == TrimSpace(parts[1])
                value == TrimSpace(parts[2])
            IN IF key = K_version THEN [c EXCEPT !.Version = value]
               ELSE IF key = K_install THEN [c EXCEPT !.Install = ParseBool(value)]
               ELSE IF key = K_install_path THEN [c EXCEPT !.InstallPath = value]
               ELSE c

RECURSIVE LoadLines(_, _)
LoadLines(c, lines) ==
    IF lines = <<>> THEN c
    ELSE LoadLines(LoadLine(c, Head(lines)), Tail(lines))

\* Config.Load on a Config c: a missing file leaves c as it is
Load(c, file) == IF ~file.exists THEN c ELSE LoadLines(c, file.lines)

\* an Update that merges the install settings the way it merges the version
UpdateKeepInstall(c, version, install, path) ==
    [Version |-> IF version # <<>> THEN version ELSE c.Version,
     Install |-> c.Install \/ install,
     InstallPath |-> IF path # <<>> THEN path ELSE c.InstallPath]

\* Config.Update, before its Save
Update(c, version, install, path) ==
    [Version |-> IF version # <<>> THEN version ELSE c.Version,
     Install |-> install,
     InstallPath |-> path]

(***************************************************************************)
(* downloader.go: version resolution and download                          *)
(***************************************************************************)
V1 == <<"1">>
V2 == <<"2">>
vV1 == <<"v", "1">>

GOOS == <<"linux">>
GOARCH == <<"amd64">>
Windows == <<"windows">>

\* what the checkpoint endpoint may answer: a transport error, a status, and
\* the current_version of the body
CheckResponses ==
    { [neterr |-> TRUE, status |-> 0, json |-> FALSE, version |-> <<>>],
      [neterr |-> FALSE, status |-> 500, json |-> FALSE, version |-> <<>>],
      [neterr |-> FALSE, status |-> 200, json |-> FALSE, version |-> <<>>],
      [neterr |-> FALSE, status |-> 200, json |-> TRUE, version |-> <<>>],
      [neterr |-> FALSE, status |-> 200, json |-> TRUE, version |-> V1],
      [neterr |-> FALSE, status |-> 200, json |-> TRUE, version |-> V2],
      [neterr |-> FALSE, status |-> 200, json |-> TRUE, version |-> vV1] }

\* what the releases server may answer to the archive GET
GetResponses ==
    { [neterr |-> TRUE, status |-> 0],
      [neterr |-> FALSE, status |-> 200],
      [neterr |-> FALSE, status |-> 204],
      [neterr |-> FALSE, status |-> 404] }

CheckRequest == [kind |-> "check", url |-> <<>>]
ArchiveRequest(v, os, arch) == [kind |-> "archive", url |-> <<v, v, os, arch>>]

\* NewDownloader: the defaults of targetOS and targetArch
TargetOS(c) == IF c.os = <<>> THEN GOOS ELSE c.os
TargetArch(c) == GOARCH

\* GetLatestVersion, given the endpoint's answer
GetLatestVersion(resp) ==
    IF resp.neterr THEN [ok |-> FALSE, version |-> <<>>, asked |-> TRUE]
    ELSE IF resp.status # 200 THEN [ok |-> FALSE, version |-> <<>>, asked |-> TRUE]
    ELSE IF ~resp.json THEN [ok |-> FALSE, version |-> <<>>, asked |-> TRUE]
    ELSE IF resp.version = <<>> THEN [ok |-> FALSE, version |-> <<>>, asked |-> TRUE]
    ELSE [ok |-> TRUE, version |-> resp.version, asked |-> TRUE]

\* a GetVersion that asks the endpoint whatever the explicit version
GetVersionAlwaysLatest(targetVer, resp) == GetLatestVersion(resp)

\* GetVersion, given the answer the endpoint would give if asked
GetVersion(targetVer, resp) ==
    IF targetVer # <<>>
    THEN [ok |-> TRUE, version |-> TrimPrefix(targetVer, <<"v">>), asked |-> FALSE]
    ELSE GetLatestVersion(resp)

\* the local name of the archive
ZipName(v, os, arch) ==
    <<"terraform_">> \o v \o <<"_">> \o os \o <<"_">> \o arch \o <<".zip">>

\* a status check that accepts every 2xx status
StatusOkAny2xx(status) == status >= 200 /\ status < 300

\* the status check of Download
StatusOk(status) == status = 200

\* Download up to the status check: the requests it issues and how far it gets.
\* stage: "version" (GetLatestVersion failed), "network", "status", or "body"
\* (the response is accepted and the file is about to be created)
DownloadRequest(targetVer, os, arch, check, get) ==
    LET latest == GetLatestVersion(check)
        asked == IF targetVer = <<>> THEN <<CheckRequest>> ELSE <<>>
    IN IF targetVer = <<>> /\ ~latest.ok
       THEN [stage |-> "version", requests |-> asked, version |-> <<>>]
       ELSE LET v == TrimPrefix(IF targetVer = <<>> THEN latest.version ELSE targetVer,
                                <<"v">>)
                reqs == Append(asked, ArchiveRequest(v, os, arch))
            IN IF get.neterr THEN [stage |-> "network", requests |-> reqs, version |-> v]
               ELSE IF ~StatusOk(get.status)
                    THEN [stage |-> "status", requests |-> reqs, version |-> v]
               ELSE [stage |-> "body", requests |-> reqs, version |-> v]

(***************************************************************************)
(* main.go                                                                 *)
(***************************************************************************)
P_b == <<"/", "b">>
P_c == <<"/", "c">>
TempDir == P_t
Terraform == <<"terraform">>
TerraformExe == <<"terraform", ".exe">>

File(n) == [name |-> n, isDir |-> FALSE]

\* the archives the releases server may serve
RunArchives ==
    { [ok |-> TRUE, files |-> <<File(Terraform)>>],
      [ok |-> TRUE, files |-> <<File(TerraformExe)>>],
      [ok |-> TRUE, files |-> <<File(Terraform), File(<<".", ".", "/", "e">>)>>],
      [ok |-> TRUE, files |-> <<File(<<"a">>)>>],
      [ok |-> FALSE, files |-> <<>>] }

NoArchive == [ok |-> FALSE, files |-> <<>>]

\* a -ver value that holds the text "windows"
VWin == <<"1", "-", "windows">>

\* the command lines: -ver, -install, -install-path, -force, -os, -help or
\* -version, and "other": some other flag was given (-arch, -quiet, or a flag
\* set to its default value)
CmdLines ==
    [ver : {<<>>, V1, vV1, <<"v">>, VWin},
     install : BOOLEAN,
     installPath : {<<>>, P_c},
     force : BOOLEAN,
     os : {<<>>, Windows},
     other : BOOLEAN,
     help : BOOLEAN]

\* flag.NFlag() == 0
AutoUpdate(c) ==
    /\ c.ver = <<>>
    /\ ~c.install
    /\ c.installPath = <<>>
    /\ ~c.force
    /\ c.os = <<>>
    /\ ~c.other
    /\ ~c.help

\* the state files a run may find: none, or one an earlier run saved
StateFiles ==
    {AbsentFile} \cup
    {FileOf(SaveContent(c)) : c \in [Version : {V1, V2}, Install : BOOLEAN,
                             InstallPath : {<<>>, P_b}]}

\* an "already up to date" test that looks at the version alone
ShouldSkipOnVersionOnly(auto, persisted, v, inst, force) == persisted = v

\* the "already up to date" test of main
ShouldSkip(auto, persisted, v, inst, force) ==
    auto /\ persisted = v /\ ~inst /\ ~force

\* strings.Contains
Contains(s, sub) ==
    \E i \in 0..(Len(s) - Len(sub)) : SubSeq(s, i + 1, i + Len(sub)) = sub

UzIdle ==
    /\ uzPc = "idle"
    /\ uzDest = <<>>
    /\ uzZip = NoArchive
    /\ uzI = 1
    /\ uzErr = "none"
    /\ uzPre = {}
    /\ fsDirs = {}
    /\ fsFiles = {}

CIdle ==
    /\ cPc = "idle"
    /\ cSaved = NewConfig
    /\ cLoaded = NewConfig

Init ==
    /\ pc = "start"
    /\ cmd \in CmdLines
    /\ cfgFile \in StateFiles
    /\ cfgFile0 = cfgFile
    /\ config = NewConfig
    /\ installFlag = cmd.install
    /\ installPath = cmd.installPath
    /\ ver = <<>>
    /\ requests = <<>>
    /\ zipFile = <<>>
    /\ cwdFiles = {}
    /\ archive = NoArchive
    /\ pathExists \in BOOLEAN
    /\ installed = {}
    /\ tempDirs = {}
    /\ everTemp = {}
    /\ exitErr = "none"
    /\ output = "none"
    /\ saveErr = FALSE
    /\ getStatus = 0
    /\ UzIdle
    /\ CIdle

\* main, lines 31-59: -help / -version, Load, and the automatic settings
Start ==
    /\ pc = "start"
    /\ IF cmd.help
       THEN /\ pc' = "done"
            /\ output' = "help"
            /\ UNCHANGED <<config, installFlag, installPath>>
       ELSE LET c == Load(NewConfig, cfgFile) IN
            /\ config' = c
            /\ IF AutoUpdate(cmd) /\ c.Install /\ c.InstallPath # <<>>
               THEN installFlag' = TRUE /\ installPath' = c.InstallPath
               ELSE UNCHANGED <<installFlag, installPath>>
            /\ pc' = "getversion"
            /\ UNCHANGED output
    /\ UNCHANGED <<cmd, cfgFile, cfgFile0, ver, requests, zipFile, cwdFiles, archive,
                   pathExists, installed, tempDirs, everTemp, exitErr, saveErr, getStatus>>
    /\ UNCHANGED <<uzVars, cVars>>

\* main, lines 61-66
ResolveVersion ==
    /\ pc = "getversion"
    /\ \E resp \in CheckResponses :
          LET r == GetVersion(cmd.ver, resp) IN
          /\ requests' = IF r.asked THEN Append(requests, CheckRequest) ELSE requests
          /\ IF r.ok
             THEN /\ ver' = r.version
                  /\ pc' = "decide"
                  /\ UNCHANGED exitErr
             ELSE /\ exitErr' = "version"
                  /\ pc' = "exit1"
                  /\ UNCHANGED ver
    /\ UNCHANGED <<cmd, cfgFile, cfgFile0, config, installFlag, installPath, zipFile,
                   cwdFiles, archive, pathExists, installed, tempDirs, everTemp,
                   output, saveErr, getStatus>>
    /\ UNCHANGED <<uzVars, cVars>>

\* main, lines 68-78
Decide ==
    /\ pc = "decide"
    /\ IF ShouldSkip(AutoUpdate(cmd), config.Version, ver, installFlag, cmd.force)
       THEN /\ output' = "uptodate"
            /\ pc' = "done"
            /\ UNCHANGED <<installFlag, installPath>>
       ELSE /\ IF cmd.force /\ config.Install /\ config.InstallPath # <<>>
               THEN installFlag' = TRUE /\ installPath' = config.InstallPath
               ELSE UNCHANGED <<installFlag, installPath>>
            /\ pc' = "download"
            /\ UNCHANGED output
    /\ UNCHANGED <<cmd, cfgFile, cfgFile0, config, ver, requests, zipFile, cwdFiles,
                   archive, pathExists, installed, tempDirs, everTemp, exitErr, saveErr, getStatus>>
    /\ UNCHANGED <<uzVars, cVars>>

\* Download as main calls it (lines 80-85): the requests, the status check,
\* os.Create and io.Copy
DownloadBody ==
    /\ pc = "download"
    /\ \E check \in CheckResponses, get \in GetResponses :
          LET d == DownloadRequest(cmd.ver, TargetOS(cmd), TargetArch(cmd), check, get)
              name == ZipName(d.version, TargetOS(cmd), TargetArch(cmd))
          IN /\ requests' = requests \o d.requests
             /\ getStatus' = IF d.stage \in {"status", "body"} THEN get.status ELSE 0
             /\ IF d.stage # "body"
                THEN /\ exitErr' = "download:" \o d.stage
                     /\ pc' = "exit1"
                     /\ UNCHANGED <<zipFile, cwdFiles, archive>>
                ELSE \E created \in BOOLEAN, copied \in BOOLEAN, z \in RunArchives :
                        IF ~created
                        THEN \* os.Create fails
                             /\ exitErr' = "download:create"
                             /\ pc' = "exit1"
                             /\ UNCHANGED <<zipFile, cwdFiles, archive>>
                        ELSE IF ~copied
                        THEN \* io.Copy fails: the file stays, partly written
                             /\ cwdFiles' = cwdFiles \cup {name}
                             /\ exitErr' = "download:write"
                             /\ pc' = "exit1"
                             /\ UNCHANGED <<zipFile, archive>>
                        ELSE /\ cwdFiles' = cwdFiles \cup {name}
                             /\ zipFile' = name
                             /\ archive' = z
                             /\ pc' = "update"
                             /\ UNCHANGED exitErr
    /\ UNCHANGED <<cmd, cfgFile0, installFlag, installPath, ver,
                   pathExists, installed, tempDirs, everTemp, output>>
    /\ UNCHANGED <<uzVars, cVars>>

\* a run that saves the state before it knows the download succeeded
DownloadSavingFirst ==
    /\ DownloadBody
    /\ config' = Update(config, ver, installFlag, installPath)
    /\ cfgFile' = FileOf(SaveContent(config'))
    /\ UNCHANGED saveErr

\* main, lines 80-85: the download touches neither the Config nor the state file
Download ==
    /\ DownloadBody
    /\ UNCHANGED <<config, cfgFile, saveErr>>

\* main, lines 87-90: config.Update and its Save, whose error is a warning
UpdateConfig ==
    /\ pc = "update"
    /\ config' = Update(config, ver, installFlag, installPath)
    /\ \E written \in BOOLEAN :
          IF written
          THEN cfgFile' = FileOf(SaveContent(config')) /\ saveErr' = FALSE
          ELSE saveErr' = TRUE /\ UNCHANGED cfgFile
    /\ pc' = "install"
    /\ UNCHANGED <<cmd, cfgFile0, installFlag, installPath, ver, requests, zipFile,
                   cwdFiles, archive, pathExists, installed, tempDirs, everTemp,
                   exitErr, output, getStatus>>
    /\ UNCHANGED <<uzVars, cVars>>

\* main, lines 92-103, and installTerraform up to its call of Unzip
InstallBegin ==
    /\ pc = "install"
    /\ IF installFlag /\ installPath # <<>>
       THEN IF ~pathExists
            THEN \* os.Stat(installPath): the install path does not exist
                 /\ exitErr' = "install:nopath"
                 /\ pc' = "exit1"
                 /\ UNCHANGED <<tempDirs, everTemp, output, uzVars>>
            ELSE \E made \in BOOLEAN :
                    IF ~made
                    THEN \* os.MkdirTemp fails
                         /\ exitErr' = "install:mktemp"
                         /\ pc' = "exit1"
                         /\ UNCHANGED <<tempDirs, everTemp, output, uzVars>>
                    ELSE /\ tempDirs' = tempDirs \cup {TempDir}
                         /\ everTemp' = everTemp \cup {TempDir}
                         /\ fsDirs' = fsDirs \cup {TempDir}
                         /\ uzPc' = "open"
                         /\ uzDest' = TempDir
                         /\ uzZip' = archive
                         /\ uzI' = 1
                         /\ uzErr' = "none"
                         /\ pc' = "unzip"
                         /\ UNCHANGED <<exitErr, output, uzPre, fsFiles>>
       ELSE /\ output' = "downloaded"
            /\ pc' = "done"
            /\ UNCHANGED <<tempDirs, everTemp, exitErr, uzVars>>
    /\ UNCHANGED <<cmd, cfgFile, cfgFile0, config, installFlag, installPath, ver,
                   requests, zipFile, cwdFiles, archive, pathExists, installed, saveErr, getStatus>>
    /\ UNCHANGED cVars

\* installTerraform's call of Unzip, entry by entry
Extract ==
    /\ pc = "unzip"
    /\ UnzipStep
    /\ UNCHANGED <<mainVars, cVars>>

\* the name of the binary installTerraform looks for
BinaryName(zip) == IF Contains(zip, Windows) THEN TerraformExe ELSE Terraform

\* an install that leaves the archive where it is
RemoveArchiveNever(files, zip) == files

\* os.Remove(zipFile) at the end of a successful installTerraform
RemoveArchive(files, zip) == files \ {zip}

\* a cleanup written at the end of installTerraform, which an early return skips
RemoveAllOnSuccess(paths, d, failed) ==
    IF failed THEN paths ELSE {p \in paths : ~Inside(p, d)}

\* defer os.RemoveAll(tempDir): runs when installTerraform returns, whether or
\* not it failed, and removes the directory d and everything below it
DeferRemoveAll(paths, d, failed) == {p \in paths : ~Inside(p, d)}

\* installTerraform after Unzip returned, with its deferred os.RemoveAll(tempDir)
InstallFinish ==
    /\ pc = "unzip"
    /\ uzPc = "ret"
    /\ LET binaryName == BinaryName(zipFile)
           srcPath == Join(TempDir, binaryName)
           dst == <<installPath, binaryName>>
       IN IF uzErr # "none"
          THEN /\ exitErr' = "install:extract"
               /\ pc' = "exit1"
               /\ UNCHANGED <<installed, cwdFiles, output>>
          ELSE IF srcPath \notin fsFiles \cup fsDirs
          THEN /\ exitErr' = "install:notfound"
               /\ pc' = "exit1"
               /\ UNCHANGED <<installed, cwdFiles, output>>
          ELSE IF srcPath \in fsDirs
          THEN \* copyFile: os.ReadFile of a directory fails
               /\ exitErr' = "install:copy"
               /\ pc' = "exit1"
               /\ UNCHANGED <<installed, cwdFiles, output>>
          ELSE \E copied \in BOOLEAN, chmodded \in BOOLEAN :
                  IF ~copied
                  THEN /\ exitErr' = "install:copy"
                       /\ pc' = "exit1"
                       /\ UNCHANGED <<installed, cwdFiles, output>>
                  ELSE IF ~chmodded
                  THEN \* the binary is in place, os.Chmod fails
                       /\ installed' = installed \cup {dst}
                       /\ exitErr' = "install:chmod"
                       /\ pc' = "exit1"
                       /\ UNCHANGED <<cwdFiles, output>>
                  ELSE /\ installed' = installed \cup {dst}
                       /\ cwdFiles' = RemoveArchive(cwdFiles, zipFile)
                       /\ output' = "installed"
                       /\ pc' = "done"
                       /\ UNCHANGED exitErr
    \* defer os.RemoveAll(tempDir): the directory and everything below it
    /\ tempDirs' = DeferRemoveAll(tempDirs, TempDir, exitErr' # "none")
    /\ fsDirs' = DeferRemoveAll(fsDirs, TempDir, exitErr' # "none")
    /\ fsFiles' = DeferRemoveAll(fsFiles, TempDir, exitErr' # "none")
    /\ uzPc' = "idle"
    /\ UNCHANGED <<uzDest, uzZip, uzI, uzErr, uzPre>>
    /\ UNCHANGED <<cmd, cfgFile, cfgFile0, config, installFlag, installPath, ver,
                   requests, zipFile, archive, pathExists, everTemp, saveErr, getStatus>>
    /\ UNCHANGED cVars

Next ==
    \/ Start
    \/ ResolveVersion
    \/ Decide
    \/ Download
    \/ UpdateConfig
    \/ InstallBegin
    \/ Extract
    \/ InstallFinish

Spec == Init /\ [][Next]_vars

(***************************************************************************)
(* Unzip on its own: any archive, any destination                          *)
(***************************************************************************)
MainIdle ==
    /\ pc = "idle"
    /\ cmd = [ver |-> <<>>, install |-> FALSE, installPath |-> <<>>, force |-> FALSE,
              os |-> <<>>, other |-> FALSE, help |-> FALSE]
    /\ cfgFile = AbsentFile
    /\ cfgFile0 = AbsentFile
    /\ config = NewConfig
    /\ installFlag = FALSE
    /\ installPath = <<>>
    /\ ver = <<>>
    /\ requests = <<>>
    /\ zipFile = <<>>
    /\ cwdFiles = {}
    /\ archive = NoArchive
    /\ pathExists = FALSE
    /\ installed = {}
    /\ tempDirs = {}
    /\ everTemp = {}
    /\ exitErr = "none"
    /\ output = "none"
    /\ saveErr = FALSE
    /\ getStatus = 0

InitUnzip ==
    /\ MainIdle
    /\ CIdle
    /\ uzPc = "open"
    /\ uzDest \in Dests
    /\ uzZip \in Archives
    /\ uzI = 1
    /\ uzErr = "none"
    /\ uzPre = {}
    /\ fsDirs = {}
    /\ fsFiles = {}

NextUnzip ==
    \/ UnzipOpen /\ UNCHANGED <<mainVars, cVars>>
    \/ UnzipEntry /\ UNCHANGED <<mainVars, cVars>>
    \/ UnzipDone /\ UNCHANGED <<mainVars, cVars>>

SpecUnzip == InitUnzip /\ [][NextUnzip]_vars

(***************************************************************************)
(* Config on its own: Save, then Load into a fresh Config                  *)
(***************************************************************************)
\* the characters of the saved strings: a letter, a space, "=" and "#"
Alphabet == {"a", " ", "=", "#"}

PrintableStrings == SeqsUpTo(Alphabet, MaxStrLen) \ {<<>>}

InitConfig ==
    /\ MainIdle
    /\ UzIdle
    /\ cPc = "save"
    /\ cSaved \in [Version : PrintableStrings, Install : BOOLEAN,
                   InstallPath : PrintableStrings]
    /\ cLoaded = NewConfig

\* c.Save()
ConfigSave ==
    /\ cPc = "save"
    /\ cfgFile' = FileOf(SaveContent(cSaved))
    /\ cPc' = "load"
    /\ UNCHANGED <<pc, cmd, cfgFile0, config, installFlag, installPath, ver,
                   requests, zipFile, cwdFiles, archive, pathExists, installed,
                   tempDirs, everTemp, exitErr, output, saveErr, getStatus>>
    /\ UNCHANGED <<uzVars, cSaved, cLoaded>>

\* NewConfig().Load()
ConfigLoad ==
    /\ cPc = "load"
    /\ cLoaded' = Load(NewConfig, cfgFile)
    /\ cPc' = "loaded"
    /\ UNCHANGED <<mainVars, uzVars, cSaved>>

NextConfig == ConfigSave \/ ConfigLoad

SpecConfig == InitConfig /\ [][NextConfig]_vars

(***************************************************************************)
(* Properties                                                              *)
(***************************************************************************)
Ended == pc \in {"done", "exit1"}

\* GetVersion has returned without error
Resolved == pc \notin {"idle", "start", "getversion"} /\ exitErr # "version" /\ ~cmd.help

\* the Config an earlier run left in the state file
Persisted == Load(NewConfig, cfgFile0)

ArchiveRequests == {i \in 1..Len(requests) : requests[i].kind = "archive"}
CheckRequests == {i \in 1..Len(requests) : requests[i].kind = "check"}

DownloadErrors ==
    {"download:version", "download:network", "download:status", "download:create",
     "download:write"}

\* C1 (as claimed): whatever the archive and the destination, every file and
\* directory the entry loop of Unzip creates is the destination or lies below it.
C1_UnzipStaysInsideDest ==
    \A p \in (fsDirs \cup fsFiles) \ uzPre : Inside(p, uzDest)

\* C2 (as claimed): in a run without flags whose persisted version equals the
\* resolved latest version, whatever the persisted install and install_path, the
\* run ends normally reporting "already up to date", having requested no archive
\* and installed nothing.
C2_UpToDateSkipsWhateverInstall ==
    (AutoUpdate(cmd) /\ Resolved /\ pc # "decide" /\ Persisted.Version = ver)
        => /\ pc = "done"
           /\ output = "uptodate"
           /\ ArchiveRequests = {}
           /\ installed = {}

\* C3: with -force set, once the version is resolved the run goes on to the
\* download step, whether or not the persisted version equals the resolved one,
\* and never reports "already up to date".
C3_ForceProceeds ==
    [][(pc = "decide" /\ cmd.force) => (pc' = "download" /\ output' # "uptodate")]_vars

C3_Witness ==
    /\ cmd.force
    /\ pc = "download"
    /\ Persisted.Version = ver
    /\ ver # <<>>

\* C4 (as claimed): a run that aborts with a fatal error, in version
\* resolution, download, extraction or install, leaves the state file as it was
\* before the run.
C4_AbortLeavesStateFile ==
    pc = "exit1" => cfgFile = cfgFile0

\* C4 (amended): the state file is written only by the update step that follows
\* a successful download and precedes extraction and install.  Up to and
\* including the download, in a skipped run and in a run that aborts in version
\* resolution or download the file is as it was before the run; from the update
\* step on (also when extraction or install then fails) it holds the record of
\* this run, unless the save itself failed.
C4_StateWrittenAfterDownload ==
    /\ (\/ pc \in {"start", "getversion", "decide", "download", "update"}
        \/ exitErr \in {"version"} \cup DownloadErrors
        \/ output \in {"help", "uptodate"})
          => cfgFile = cfgFile0
    /\ (pc \in {"install", "unzip"} \/ (Ended /\ zipFile # <<>>))
          => IF saveErr
             THEN cfgFile = cfgFile0
             ELSE /\ cfgFile.exists
                  /\ Load(NewConfig, cfgFile).Install = installFlag
                  /\ Load(NewConfig, cfgFile).InstallPath = installPath

C4_Witness ==
    /\ pc = "exit1"
    /\ exitErr = "install:extract"
    /\ cfgFile # cfgFile0

\* C5 (as claimed): Save followed by Load into a fresh Config gives back the
\* saved version, install flag and install path, for non-empty printable strings.
C5_SaveLoadRoundTrip ==
    cPc = "loaded" => cLoaded = cSaved

\* C6 (as claimed): once resolved, the version has no leading "v": neither the
\* value GetVersion returned, nor the version in the state file, nor the
\* version in the URL of an archive request.
C6_NoLeadingV ==
    Resolved =>
        /\ ~HasPrefix(ver, <<"v">>)
        /\ (cfgFile # cfgFile0 => ~HasPrefix(Load(NewConfig, cfgFile).Version, <<"v">>))
        /\ \A i \in ArchiveRequests : ~HasPrefix(requests[i].url[1], <<"v">>)

\* C7: Update keeps the stored version when its version argument is empty and
\* replaces it otherwise, overwrites the install flag and the install path with
\* its arguments whatever they were, and saves the whole record: after the
\* orchestrator's call the state file holds the install flag and path of the run
\* (when the write did not fail).
C7_UpdateFrame ==
    [][(pc = "update" /\ pc' = "install") =>
          /\ config'.Version = (IF ver = <<>> THEN config.Version ELSE ver)
          /\ config'.Install = installFlag
          /\ config'.InstallPath = installPath
          /\ ~saveErr' =>
                /\ cfgFile' = FileOf(SaveContent(config'))
                /\ Load(NewConfig, cfgFile').Install = installFlag
                /\ Load(NewConfig, cfgFile').InstallPath = installPath
                /\ Load(NewConfig, cfgFile').Version = config'.Version]_vars

C7_Witness ==
    /\ pc = "install"
    /\ ~saveErr
    /\ ver = <<>>
    /\ config.Version = V1
    /\ Persisted.Install
    /\ Persisted.InstallPath # <<>>
    /\ ~config.Install
    /\ config.InstallPath = <<>>

\* C8: in a run given a non-empty explicit version, version resolution does not
\* fail and the checkpoint endpoint is never asked, neither by GetVersion nor by
\* Download: the only request is at most one archive GET.
C8_ExplicitVersionOffline ==
    cmd.ver # <<>> =>
        /\ exitErr \notin {"version", "download:version"}
        /\ CheckRequests = {}
        /\ Len(requests) <= 1

C8_Witness ==
    /\ cmd.ver # <<>>
    /\ pc = "done"
    /\ Len(requests) = 1
    /\ requests[1].kind = "archive"

\* C9 (as claimed): a non-2xx answer to the archive GET makes Download fail with
\* a status error while the archive file has still been created, and any 2xx
\* status is a success.
C9_Non2xxCreatesFile_2xxSucceeds ==
    /\ (getStatus # 0 /\ ~(getStatus >= 200 /\ getStatus < 300))
          => (exitErr = "download:status" /\ cwdFiles # {})
    /\ (getStatus >= 200 /\ getStatus < 300) => exitErr # "download:status"

\* C9 (amended): any status other than 200 makes Download fail with a status
\* error after a single archive GET (no retry), and no archive file is created;
\* only status 200 is a success.
C9_Non200FailsNoFile ==
    /\ (getStatus # 0 /\ getStatus # 200)
          => /\ exitErr = "download:status"
             /\ pc = "exit1"
             /\ Cardinality(ArchiveRequests) = 1
             /\ cwdFiles = {}
             /\ zipFile = <<>>
    /\ getStatus = 200 => exitErr # "download:status"

C9_Witness ==
    /\ getStatus = 204
    /\ exitErr = "download:status"
    /\ cwdFiles = {}

\* C10: at the end of a run that downloaded an archive, the archive file is gone
\* from the working directory exactly when an install was performed and
\* succeeded; it is kept when no install was requested, when the install path is
\* empty and when the install failed.
C10_ArchiveDeletedIffInstalled ==
    (Ended /\ zipFile # <<>>) =>
        /\ (zipFile \notin cwdFiles) <=>
              /\ output = "installed"
              /\ exitErr = "none"
              /\ <<installPath, BinaryName(zipFile)>> \in installed
        /\ (~installFlag \/ installPath = <<>>) => zipFile \in cwdFiles
        /\ exitErr # "none" => zipFile \in cwdFiles

C10_Witness ==
    /\ pc = "done"
    /\ output = "installed"
    /\ zipFile # <<>>
    /\ zipFile \notin cwdFiles

\* C11: every scratch directory the install phase created is gone, with all it
\* held, once installTerraform has returned, on every exit path: success,
\* extraction error (path traversal included), binary not found, copy error and
\* chmod error.  No run ends with a scratch directory still on disk.
C11_ScratchRemoved ==
    pc # "unzip" =>
        /\ tempDirs = {}
        /\ \A d \in everTemp : \A p \in fsDirs \cup fsFiles : ~Inside(p, d)

C11_Witness ==
    /\ pc = "exit1"
    /\ exitErr = "install:extract"
    /\ uzErr = "illegal"
    /\ everTemp # {}
    /\ tempDirs = {}

\* the binary name the target OS calls for
ExpectedBinary == IF TargetOS(cmd) = Windows THEN TerraformExe ELSE Terraform

\* C12 (as claimed): whatever the target OS, architecture and version, once the
\* archive is extracted the installer looks for the .exe name exactly when the
\* target OS is windows: it fails with binary-not-found when that file is absent
\* from the scratch directory, and installs nothing under another name.
C12_BinaryNameFollowsTargetOS ==
    [][(pc = "unzip" /\ uzPc = "ret" /\ uzErr = "none" /\ pc' # "unzip") =>
          /\ (Join(TempDir, ExpectedBinary) \notin fsFiles \cup fsDirs)
                => exitErr' = "install:notfound"
          /\ exitErr' = "install:notfound"
                => Join(TempDir, ExpectedBinary) \notin fsFiles \cup fsDirs
          /\ \A b \in installed' : b[2] = ExpectedBinary]_vars

\* the version in the URL of the archive this run fetched
FetchedVersion == requests[Len(requests)].url[1]

\* C13 (as claimed): in a run that completed a download and saved its state,
\* the version in the state file is the version of the archive that was
\* fetched (the one in the download URL and the archive's name), also when no
\* version was given and the checkpoint endpoint is asked by GetVersion and
\* again by Download.
C13_StateVersionIsFetchedVersion ==
    (pc \in {"install", "unzip", "done", "exit1"} /\ zipFile # <<>> /\ ~saveErr)
        => /\ Load(NewConfig, cfgFile).Version = FetchedVersion
           /\ zipFile = ZipName(Load(NewConfig, cfgFile).Version,
                                TargetOS(cmd), TargetArch(cmd))

====
